---- MODULE Spec2Model ----
(***************************************************************************)
(* Model of the Dremel discovery plugin.                                   *)
(*                                                                         *)
(*   DremelDiscoveryPlugin  - the scanner: startDiscovery, stopDiscovery   *)
(*                            and the scan threads it starts               *)
(*   DremelOutputDevice     - one printer connection: the status polling   *)
(*                            thread, requestWrite and its upload threads  *)
(*                                                                         *)
(* Threads are interleaved at their blocking calls (urlopen, Thread.start, *)
(* Logger.log, time.sleep): the code between two blocking calls of one     *)
(* thread is one step.  socket.setdefaulttimeout and the urlopen that      *)
(* reads the default are kept apart, as the default is process-wide.       *)
(***************************************************************************)
EXTENDS Integers, Sequences, FiniteSets, TLC

(* ---- bounds of the model ---- *)
\* scan threads that can be created (calls of threading.Thread in startDiscovery)
MaxThreads == 2
\* stands for the 250 of range(2, 250): the addresses probed are RangeStart..RangeStop-1
RangeStop == 3
\* upload threads that can be created (accepted write requests)
MaxWrites == 2
\* the stateChanged counter of a run of failed polls saturates here
EmitCap == 3

(* ---- program constants ---- *)
RangeStart == 2
ProbeTimeout == 1
PollTimeout == 5
UploadTimeout == 30
StartTimeout == 10
HTTP_OK == 200
\* statuses urlopen returns without raising that are not 200
OtherStatuses == {204}

None == 0
Threads == 1..MaxThreads
Writes == 1..MaxWrites
Hosts == RangeStart..(RangeStop - 1)

(* ---- JSON documents, as far as the code looks into them ---- *)
\* characters of the status words
Upper == <<"B", "U", "I", "L", "D", "N", "G", "P", "R", "T">>
Lowr == <<"b", "u", "i", "l", "d", "n", "g", "p", "r", "t">>

\* str.lower() on one character
LowerChar(c) ==
    IF \E k \in 1..Len(Upper) : Upper[k] = c
    THEN Lowr[CHOOSE k \in 1..Len(Upper) : Upper[k] = c]
    ELSE c

\* str.lower()
Lower(s) == [k \in 1..Len(s) |-> LowerChar(s[k])]

W_building == <<"b", "u", "i", "l", "d", "i", "n", "g">>
W_printing == <<"p", "r", "i", "n", "t", "i", "n", "g">>
W_empty == <<>>

\* build.status strings a device may send
StatusStrings ==
    { W_building,
      <<"B", "u", "i", "l", "d", "i", "n", "g">>,
      <<"B", "U", "I", "L", "D", "I", "N", "G">>,
      W_printing,
      <<"P", "r", "i", "n", "t", "i", "n", "g">>,
      <<"p", "R", "i", "N", "t", "I", "n", "G">>,
      <<"i", "d", "l", "e">>,
      <<"p", "r", "i", "n", "t">>,
      W_empty }

\* build.progress numbers a device may send
ProgressNumbers == {0, 50, 150}

NoStatus == [kind |-> "missing", val |-> W_empty]
NoProgress == [kind |-> "missing", val |-> 0]

\* a response body: type is the JSON type ("invalid" when json.loads raises),
\* empty says the value is falsy in Python ({} [] "" 0 false null)
Body(type, empty, machine, build, status, progress) ==
    [type |-> type, empty |-> empty, machine |-> machine, build |-> build,
     status |-> status, progress |-> progress]

NoBody == Body("none", TRUE, "missing", "missing", NoStatus, NoProgress)
InvalidBody == Body("invalid", TRUE, "missing", "missing", NoStatus, NoProgress)
EmptyObject == Body("object", TRUE, "missing", "missing", NoStatus, NoProgress)
NullBody == Body("null", TRUE, "missing", "missing", NoStatus, NoProgress)

\* non-empty JSON values that are not objects: [1], "x", 5, true
TruthyScalars ==
    { Body(t, FALSE, "missing", "missing", NoStatus, NoProgress) :
        t \in {"array", "string", "number", "bool"} }

\* bodies a probed address may answer with; machine is the "machine" member:
\* missing, an object with a name, or not an object
ProbeBodies ==
    {InvalidBody, EmptyObject, NullBody} \cup TruthyScalars
    \cup { Body("object", FALSE, m, "missing", NoStatus, NoProgress) :
             m \in {"missing", "named", "nonobject"} }

\* Exception texts str(e) of a failed upload or start request
ExcTexts == {"timed out", "HTTP Error 500"}

Reply(kind, status, body, text) ==
    [kind |-> kind, status |-> status, body |-> body, text |-> text]

NoReply == Reply("none", 0, NoBody, "")

\* what urlopen + read gives a probe: URLError (refused, HTTP error status),
\* socket.timeout, another exception, or a body
ProbeReplies ==
    { Reply(k, 0, NoBody, "") : k \in {"urlerror", "timeout", "error"} }
    \cup { Reply("ok", HTTP_OK, b, "") : b \in ProbeBodies }

VARIABLES
    is_scanning,         \* DremelDiscoveryPlugin._is_scanning
    discovery_thread,    \* DremelDiscoveryPlugin._discovery_thread: a thread or None
    scan,                \* the scan threads: pc, loop variable i, timeout of the open request
    discovered_devices,  \* keys of DremelDiscoveryPlugin._discovered_devices
    constructed,         \* host -> DremelOutputDevice objects constructed for it
    added,               \* host -> addOutputDevice calls for its device
    changed,             \* host -> discoveredDevicesChanged emissions for its device
    defaulttimeout,      \* the process-wide socket default timeout (None at start)
    is_connected,        \* DremelOutputDevice._is_connected
    printing,            \* DremelOutputDevice._printing
    progress,            \* DremelOutputDevice._progress
    poll,                \* the status thread: pc, timeout of the open request
    upload,              \* the upload threads: pc, response and start_response statuses
    fail_run_emits,      \* stateChanged emissions in the current run of failed polls
    out,                 \* what the last step of the connection did: calls, signals, messages
    reply                \* the network reply the last step consumed

scanner_vars == <<is_scanning, discovery_thread, scan, discovered_devices, constructed,
                  added, changed>>
device_vars == <<is_connected, printing, progress, poll, upload, fail_run_emits>>
vars == <<scanner_vars, defaulttimeout, device_vars, out, reply>>

Ip(i) == <<192, 168, 1, i>>
Key(i) == <<"dremel:", Ip(i)>>

NoOut == <<>>

(* ---- DremelDiscoveryPlugin ---- *)

ScanIdle == [pc |-> "idle", i |-> RangeStart, timeout |-> None]
PollNone == [pc |-> "none", timeout |-> None]
PollTopOfLoop == [pc |-> "top", timeout |-> None]
UploadIdle == [pc |-> "idle", response |-> None, start_response |-> None, timeout |-> None,
               emits |-> 0]

\* DremelDiscoveryPlugin.__init__; no DremelOutputDevice exists yet
InitScanner ==
    /\ is_scanning = FALSE
    /\ discovery_thread = None
    /\ scan = [t \in Threads |-> ScanIdle]
    /\ discovered_devices = {}
    /\ constructed = [h \in Hosts |-> 0]
    /\ added = [h \in Hosts |-> 0]
    /\ changed = [h \in Hosts |-> 0]
    /\ defaulttimeout = None
    /\ is_connected = FALSE
    /\ printing = FALSE
    /\ progress = 0
    /\ poll = PollNone
    /\ upload = [u \in Writes |-> UploadIdle]
    /\ fail_run_emits = 0
    /\ out = NoOut
    /\ reply = NoReply

\* the thread object the next threading.Thread(...) creates
FreshThread ==
    CHOOSE t \in Threads :
        scan[t].pc = "idle" /\ \A u \in Threads : scan[u].pc = "idle" => t <= u

HasFreshThread == \E t \in Threads : scan[t].pc = "idle"

\* startDiscovery creates a thread only when _discovery_thread is None
NeedsThread == discovery_thread = None

StartDiscovery ==
    /\ is_scanning \/ ~NeedsThread \/ HasFreshThread
    /\ reply' = NoReply
    /\ out' = NoOut
    /\ IF is_scanning
       THEN UNCHANGED <<is_scanning, discovery_thread, scan>>
       ELSE /\ is_scanning' = TRUE
            /\ IF NeedsThread
               THEN /\ discovery_thread' = FreshThread
                    /\ scan' = [scan EXCEPT ![FreshThread].pc = "loop"]
               ELSE UNCHANGED <<discovery_thread, scan>>
    /\ UNCHANGED <<discovered_devices, constructed, added, changed, defaulttimeout,
                   device_vars>>

StopDiscovery ==
    /\ reply' = NoReply
    /\ out' = NoOut
    /\ IF ~is_scanning
       THEN UNCHANGED <<is_scanning, discovery_thread>>
       ELSE /\ is_scanning' = FALSE
            /\ discovery_thread' = None
    /\ UNCHANGED <<scan, discovered_devices, constructed, added, changed, defaulttimeout,
                   device_vars>>

\* faulty variant: the loop never looks at the flag
LoopContinues_NoFlag(t) == scan[t].i < RangeStop

\* the for loop's head: the next address, unless the range is used up or
\* the flag is off
LoopContinues(t) == scan[t].i < RangeStop /\ is_scanning

\* one turn of the loop head; on continuing, _checkPrinter begins with
\* setdefaulttimeout(1)
ScanLoop(t) ==
    /\ scan[t].pc = "loop"
    /\ reply' = NoReply
    /\ out' = NoOut
    /\ IF LoopContinues(t)
       THEN /\ defaulttimeout' = ProbeTimeout
            /\ scan' = [scan EXCEPT ![t].pc = "urlopen"]
       ELSE /\ scan' = [scan EXCEPT ![t].pc = "finish"]
            /\ UNCHANGED defaulttimeout
    /\ UNCHANGED <<is_scanning, discovery_thread, discovered_devices, constructed, added,
                   changed, device_vars>>

\* urlopen without a timeout argument: the socket takes the default in force
ScanOpen(t) ==
    /\ scan[t].pc = "urlopen"
    /\ reply' = NoReply
    /\ out' = NoOut
    /\ scan' = [scan EXCEPT ![t].pc = "inflight", ![t].timeout = defaulttimeout]
    /\ UNCHANGED <<is_scanning, discovery_thread, discovered_devices, constructed,
                   added, changed, defaulttimeout, device_vars>>

\* Python truthiness of the parsed value
Truthy(b) == ~b.empty

\* faulty variant: every reply is taken as a printer
ProbeOutcome_AnyReply(r) == "found"

\* how _checkPrinter's try block ends for a reply
ProbeOutcome(r) ==
    IF r.kind = "urlerror" THEN "urlerror"
    ELSE IF r.kind = "timeout" THEN "timeout"
    ELSE IF r.kind = "error" THEN "exception"
    ELSE IF r.body.type = "invalid" THEN "exception"       \* json.loads raises
    ELSE IF ~Truthy(r.body) THEN "falsy"
    ELSE IF r.body.type # "object" THEN "exception"        \* no .get on it
    ELSE IF r.body.machine = "nonobject" THEN "exception"  \* no .get on machine
    ELSE "found"

\* key not in self._discovered_devices
NotYetDiscovered(i) == Key(i) \notin discovered_devices

NextAddress(t) == [scan EXCEPT ![t].pc = "loop", ![t].i = @ + 1, ![t].timeout = None]

\* the reply of the probe: on a match _onDeviceFound is entered and tests the key
ScanReply(t) ==
    /\ scan[t].pc = "inflight"
    /\ out' = NoOut
    /\ \E r \in ProbeReplies :
        /\ reply' = r
        /\ IF ProbeOutcome(r) = "found" /\ NotYetDiscovered(scan[t].i)
           THEN scan' = [scan EXCEPT ![t].pc = "construct", ![t].timeout = None]
           ELSE scan' = NextAddress(t)
    /\ UNCHANGED <<is_scanning, discovery_thread, discovered_devices, constructed,
                   added, changed, defaulttimeout, device_vars>>

\* DremelOutputDevice.__init__ ends in _startStatusMonitor; the model follows
\* the status thread of the first device constructed
StartStatusMonitor == IF poll.pc = "none" THEN PollTopOfLoop ELSE poll

\* the rest of _onDeviceFound: the device is constructed, stored, added to the
\* host and announced
ScanConstruct(t) ==
    /\ scan[t].pc = "construct"
    /\ reply' = NoReply
    /\ out' = NoOut
    /\ constructed' = [constructed EXCEPT ![scan[t].i] = @ + 1]
    /\ poll' = StartStatusMonitor
    /\ discovered_devices' = discovered_devices \cup {Key(scan[t].i)}
    /\ added' = [added EXCEPT ![scan[t].i] = @ + 1]
    /\ changed' = [changed EXCEPT ![scan[t].i] = @ + 1]
    /\ scan' = NextAddress(t)
    /\ UNCHANGED <<is_scanning, discovery_thread, defaulttimeout, is_connected, printing,
                   progress, upload, fail_run_emits>>

\* after the loop: the log line, then the flag is cleared and the thread ends
\* (its loop variable goes with it)
ScanFinish(t) ==
    /\ scan[t].pc = "finish"
    /\ reply' = NoReply
    /\ out' = NoOut
    /\ is_scanning' = FALSE
    /\ scan' = [scan EXCEPT ![t].pc = "done", ![t].i = RangeStart]
    /\ UNCHANGED <<discovery_thread, discovered_devices, constructed, added, changed,
                   defaulttimeout, device_vars>>

ScanStep(t) ==
    \/ ScanLoop(t)
    \/ ScanOpen(t)
    \/ ScanReply(t)
    \/ ScanConstruct(t)
    \/ ScanFinish(t)

AnyScanStep == \E t \in Threads : ScanStep(t)

NextScanner ==
    \/ StartDiscovery
    \/ StopDiscovery
    \/ AnyScanStep

SpecScanner == InitScanner /\ [][NextScanner]_vars

\* every probe returns (it has a timeout), and a runnable thread is scheduled
SpecScannerFair == SpecScanner /\ WF_vars(AnyScanStep)

(* ---- DremelOutputDevice ---- *)

\* DremelOutputDevice.__init__: the state of a device just constructed, its
\* status thread started
InitConnection ==
    /\ is_scanning = FALSE
    /\ discovery_thread = None
    /\ scan = [t \in Threads |-> ScanIdle]
    /\ discovered_devices = {}
    /\ constructed = [h \in Hosts |-> 0]
    /\ added = [h \in Hosts |-> 0]
    /\ changed = [h \in Hosts |-> 0]
    /\ defaulttimeout = None
    /\ is_connected = FALSE
    /\ printing = FALSE
    /\ progress = 0
    /\ poll = PollTopOfLoop
    /\ upload = [u \in Writes |-> UploadIdle]
    /\ fail_run_emits = 0
    /\ out = NoOut
    /\ reply = NoReply

Call(name) == <<"call", name>>
Step(name) == <<"step", name>>
Http(name) == <<"http", name>>
Emit(signal) == <<"emit", signal>>
Log(level) == <<"log", level>>
Msg(text) == <<"msg", text>>

BusyMessage == Msg("Dremel printer is busy. Please wait until the current print job is finished.")
UploadingMessage == Msg("Uploading to Dremel printer")
UploadedMessage == Msg("Print job uploaded to Dremel printer successfully.")
StartFailedMessage == Msg("Failed to start print job on Dremel printer.")
UploadFailedMessage == Msg("Failed to upload print job to Dremel printer.")
ErrorUploadingMessage(e) == <<"msg", "Error uploading to Dremel printer: ", e>>

\* n copies of an event
Times(n, e) == [k \in 1..n |-> e]

\* how often an event occurs in a step's output
Count(events, e) == Cardinality({k \in 1..Len(events) : events[k] = e})

Min(a, b) == IF a < b THEN a ELSE b

\* the thread object the next threading.Thread(...) of requestWrite creates
FreshWrite ==
    CHOOSE u \in Writes :
        upload[u].pc = "idle" /\ \A v \in Writes : upload[v].pc = "idle" => u <= v

HasFreshWrite == \E u \in Writes : upload[u].pc = "idle"

\* faulty variant: no busy test
WriteRejected_Never == FALSE

\* requestWrite's first test
WriteRejected == printing

\* requestWrite(nodes, file_name): exporter says whether the host has a
\* "local_file" output device
RequestWrite ==
    /\ poll.pc # "none"
    /\ reply' = NoReply
    /\ \E exporter \in BOOLEAN :
        IF WriteRejected
        THEN /\ out' = <<Call("requestWrite"), BusyMessage>>
             /\ UNCHANGED upload
        ELSE IF ~exporter
        THEN /\ out' = <<Call("requestWrite"), Log("e")>>
             /\ UNCHANGED upload
        ELSE /\ HasFreshWrite
             /\ out' = <<Call("requestWrite"), Call("local_file.requestWrite"),
                         Call("Thread.start")>>
             /\ upload' = [upload EXCEPT ![FreshWrite].pc = "open"]
    /\ UNCHANGED <<scanner_vars, defaulttimeout, is_connected, printing, progress, poll,
                   fail_run_emits>>

EndUpload(u) == [upload EXCEPT ![u].pc = "done", ![u].timeout = None]

\* _uploadGCode up to the upload POST: the temporary file is read (which may
\* raise), the progress message shown and the request sent with timeout=30
UploadOpen(u) ==
    /\ upload[u].pc = "open"
    /\ reply' = NoReply
    /\ \/ \E e \in ExcTexts :
            /\ upload' = EndUpload(u)
            /\ out' = <<Step("_uploadGCode"), Log("e"), ErrorUploadingMessage(e)>>
       \/ /\ upload' = [upload EXCEPT ![u].pc = "uploading", ![u].timeout = UploadTimeout]
          /\ out' = <<Step("_uploadGCode"), UploadingMessage, Http("upload")>>
    /\ UNCHANGED <<scanner_vars, defaulttimeout, is_connected, printing, progress, poll,
                   fail_run_emits>>

\* what urlopen gives an upload or start request: a status, or an exception
CommandReplies ==
    { Reply("ok", st, NoBody, "") : st \in {HTTP_OK} \cup OtherStatuses }
    \cup { Reply("error", 0, NoBody, e) : e \in ExcTexts }

\* faulty variant: every status line counts as success
StatusIsOk_AnyStatus(r) == r.kind = "ok"

\* response.status == 200
StatusIsOk(r) == r.kind = "ok" /\ r.status = HTTP_OK

\* the reply of the upload POST; on 200 the start command is sent with timeout=10
UploadReply(u) ==
    /\ upload[u].pc = "uploading"
    /\ \E r \in CommandReplies :
        /\ reply' = r
        /\ IF r.kind = "error"
           THEN /\ upload' = EndUpload(u)
                /\ out' = <<Step("_uploadGCode"), Log("e"), ErrorUploadingMessage(r.text)>>
           ELSE IF StatusIsOk(r)
           THEN /\ upload' = [upload EXCEPT ![u].pc = "starting", ![u].response = r.status,
                                            ![u].timeout = StartTimeout]
                /\ out' = <<Step("_uploadGCode"), UploadedMessage, Http("printfile")>>
           ELSE /\ upload' = [EndUpload(u) EXCEPT ![u].response = r.status]
                /\ out' = <<Step("_uploadGCode"), UploadFailedMessage>>
    /\ UNCHANGED <<scanner_vars, defaulttimeout, is_connected, printing, progress, poll,
                   fail_run_emits>>

\* faulty variant: the progress of the last job is kept
ProgressAtStart_Kept == progress

\* the progress a started job begins with
ProgressAtStart == 0

\* the reply of the start command
StartReply(u) ==
    /\ upload[u].pc = "starting"
    /\ \E r \in CommandReplies :
        /\ reply' = r
        /\ IF r.kind = "error"
           THEN /\ upload' = EndUpload(u)
                /\ out' = <<Step("_uploadGCode"), Log("e"), ErrorUploadingMessage(r.text)>>
                /\ UNCHANGED <<printing, progress>>
           ELSE IF StatusIsOk(r)
           THEN /\ printing' = TRUE
                /\ progress' = ProgressAtStart
                /\ upload' = [EndUpload(u) EXCEPT ![u].start_response = r.status,
                                                  ![u].emits = @ + 1]
                /\ out' = <<Step("_uploadGCode"), Emit("progressChanged")>>
           ELSE /\ upload' = [EndUpload(u) EXCEPT ![u].start_response = r.status]
                /\ out' = <<Step("_uploadGCode"), StartFailedMessage>>
                /\ UNCHANGED <<printing, progress>>
    /\ UNCHANGED <<scanner_vars, defaulttimeout, is_connected, poll, fail_run_emits>>

UploadStep(u) ==
    \/ UploadOpen(u)
    \/ UploadReply(u)
    \/ StartReply(u)

\* the top of the status loop (after the sleep of the turn before):
\* setdefaulttimeout(5)
PollTop ==
    /\ poll.pc = "top"
    /\ reply' = NoReply
    /\ out' = <<Step("_statusThreadFunction")>>
    /\ defaulttimeout' = PollTimeout
    /\ poll' = [poll EXCEPT !.pc = "urlopen"]
    /\ UNCHANGED <<scanner_vars, is_connected, printing, progress, upload, fail_run_emits>>

\* urlopen without a timeout argument: the socket takes the default in force
PollOpen ==
    /\ poll.pc = "urlopen"
    /\ reply' = NoReply
    /\ out' = <<Step("_statusThreadFunction"), Http("getprinterstatus")>>
    /\ poll' = [poll EXCEPT !.pc = "inflight", !.timeout = defaulttimeout]
    /\ UNCHANGED <<scanner_vars, defaulttimeout, is_connected, printing, progress, upload,
                   fail_run_emits>>

\* bodies a polled device may answer with
PollBodies ==
    {InvalidBody, EmptyObject, Body("array", FALSE, "missing", "missing", NoStatus, NoProgress)}
    \cup { Body("object", FALSE, "missing", b, NoStatus, NoProgress) :
             b \in {"missing", "nonobject"} }
    \cup { Body("object", FALSE, "missing", "object", st, pr) :
             st \in {NoStatus, [kind |-> "nonstr", val |-> W_empty]}
                    \cup { [kind |-> "str", val |-> w] : w \in StatusStrings },
             pr \in {NoProgress} \cup { [kind |-> "num", val |-> n] : n \in ProgressNumbers } }

\* what urlopen + read gives a poll: an exception, a status other than 200,
\* or 200 and a body
PollReplies ==
    { Reply("error", 0, NoBody, "") }
    \cup { Reply("ok", st, NoBody, "") : st \in OtherStatuses }
    \cup { Reply("ok", HTTP_OK, b, "") : b \in PollBodies }

\* json.loads and the status lookup go through without raising
PollParses(b) ==
    /\ b.type = "object"
    /\ b.build # "nonobject"
    /\ b.status.kind # "nonstr"

\* status_data.get("build", {}).get("status", "").lower()
StatusWord(b) == IF b.status.kind = "str" THEN Lower(b.status.val) ELSE W_empty

\* faulty variant: no status counts as a build status
IsBuildStatus_Never(b) == FALSE

\* printing_status in ["building", "printing"]
IsBuildStatus(b) == StatusWord(b) \in {W_building, W_printing}

\* status_data.get("build", {}).get("progress", 0)
ReportedProgress(b) == IF b.progress.kind = "num" THEN b.progress.val ELSE 0

\* faulty variant: the notification is sent on every poll of a printing device
ProgressDiffers_Always(new) == TRUE

\* progress != self._progress
ProgressDiffers(new) == new # progress

\* the reply of a poll, handled to the end of the loop body
PollReply ==
    /\ poll.pc = "inflight"
    /\ poll' = [poll EXCEPT !.pc = "top", !.timeout = None]
    /\ \E r \in PollReplies :
        /\ reply' = r
        /\ IF ~StatusIsOk(r)
           THEN \* the else branch, or the except branch
                /\ is_connected' = FALSE
                /\ fail_run_emits' = Min(EmitCap, fail_run_emits + (IF is_connected THEN 1 ELSE 0))
                /\ out' = <<Step("_statusThreadFunction")>>
                          \o Times(IF is_connected THEN 1 ELSE 0, Emit("stateChanged"))
                          \o (IF r.kind = "error" THEN <<Log("d")>> ELSE <<>>)
                /\ UNCHANGED <<printing, progress>>
           ELSE IF ~PollParses(r.body)
           THEN \* connected first, then the except branch
                /\ is_connected' = FALSE
                /\ fail_run_emits' = Min(EmitCap, fail_run_emits + (IF is_connected THEN 1 ELSE 2))
                /\ out' = <<Step("_statusThreadFunction")>>
                          \o Times(IF is_connected THEN 1 ELSE 2, Emit("stateChanged"))
                          \o <<Log("d")>>
                /\ UNCHANGED <<printing, progress>>
           ELSE /\ is_connected' = TRUE
                /\ fail_run_emits' = 0
                /\ printing' = IsBuildStatus(r.body)
                /\ IF IsBuildStatus(r.body) /\ ProgressDiffers(ReportedProgress(r.body))
                   THEN /\ progress' = ReportedProgress(r.body)
                        /\ out' = <<Step("_statusThreadFunction")>>
                                  \o Times(IF is_connected THEN 0 ELSE 1, Emit("stateChanged"))
                                  \o <<Emit("progressChanged")>>
                   ELSE /\ UNCHANGED progress
                        /\ out' = <<Step("_statusThreadFunction")>>
                                  \o Times(IF is_connected THEN 0 ELSE 1, Emit("stateChanged"))
    /\ UNCHANGED <<scanner_vars, defaulttimeout, upload>>

PollStep ==
    \/ PollTop
    \/ PollOpen
    \/ PollReply

AnyUploadStep == \E u \in Writes : UploadStep(u)

NextConnection ==
    \/ RequestWrite
    \/ AnyUploadStep
    \/ PollStep

SpecConnection == InitConnection /\ [][NextConnection]_vars

\* the status thread is never held up for good: each request returns by its
\* timeout and each sleep ends
SpecConnectionFair == SpecConnection /\ WF_vars(PollStep)

(* ---- claims about the scanner ---- *)

\* C1: whenever the scanning flag is false, startDiscovery() (the only step
\* that raises the flag) starts a scan thread.
C1_StartBeginsScan ==
    [][(~is_scanning /\ is_scanning')
         => \E t \in Threads : scan[t].pc = "idle" /\ scan'[t].pc = "loop"]_vars

\* C2: for each address at most one DremelOutputDevice is constructed, at most
\* one addOutputDevice call is made and at most one devices-changed
\* notification is raised, whatever scans run and overlap.
C2_OneRecordPerAddress ==
    \A h \in Hosts : constructed[h] <= 1 /\ added[h] <= 1 /\ changed[h] <= 1

\* a probe whose try block raises: a network error, a body that is no JSON,
\* or a JSON value the name lookup cannot be made on
ProbeRaises(r) ==
    \/ r.kind \in {"urlerror", "timeout", "error"}
    \/ r.kind = "ok" /\ r.body.type = "invalid"
    \/ r.kind = "ok" /\ ~r.body.empty /\ r.body.type # "object"
    \/ r.kind = "ok" /\ ~r.body.empty /\ r.body.machine = "nonobject"

\* C9: a probe that ends in a timeout, a refused connection or any other
\* exception leaves the device mapping and the host registry as they were
\* and the scan goes on to the next address.
C9_FailedProbeNoRecord ==
    [][\A t \in Threads :
         (scan[t].pc = "inflight" /\ scan'[t].pc # "inflight" /\ ProbeRaises(reply'))
           => /\ scan'[t].pc = "loop"
              /\ scan'[t].i = scan[t].i + 1
              /\ UNCHANGED <<discovered_devices, constructed, added, changed, poll>>]_vars

\* a timed-out probe of the first address has been passed over
C9_Witness ==
    \E t \in Threads :
        /\ reply.kind = "timeout"
        /\ scan[t].pc = "loop"
        /\ scan[t].i = RangeStart + 1
        /\ discovered_devices = {}

AllScansEnded == \A t \in Threads : scan[t].pc \in {"idle", "done"}

C12_NonEmptyJsonRegisters ==
    [][\A t \in Threads :
         (/\ scan[t].pc = "inflight" /\ scan'[t].pc # "inflight"
          /\ reply'.kind = "ok" /\ reply'.body.type # "invalid")
           => IF reply'.body.empty
              THEN scan'[t].pc # "construct"
              ELSE scan'[t].pc = "construct" \/ ~NotYetDiscovered(scan[t].i)]_vars

\* C13: a scan thread probes only addresses of the range, moves from an
\* address only to the next one, has the scanning flag false when it ends, and
\* a scanning flag that is true is eventually false.
C13_ScanEndsFlagCleared ==
    /\ [][\A t \in Threads :
            /\ (scan[t].pc = "loop" /\ scan'[t].pc = "urlopen") => scan[t].i \in Hosts
            /\ (scan[t].pc \in {"inflight", "construct"} /\ scan'[t].pc = "loop")
                 => scan'[t].i = scan[t].i + 1
            /\ (scan[t].pc \in {"loop", "urlopen"} \/ scan'[t].pc \in {"inflight", "construct"})
                 => scan'[t].i = scan[t].i
            /\ (scan[t].pc # "done" /\ scan'[t].pc = "done") => ~is_scanning']_vars
    /\ (is_scanning ~> ~is_scanning)

(* ---- claims about the printer connection ---- *)

\* C3: a write request made while printing is true only shows the busy
\* message: no exporter call, no upload thread, no HTTP request, and
\* is_connected, printing and progress stay as they are.
C3_BusyWriteOnlyNotifies ==
    [][(printing /\ Len(out') > 0 /\ out'[1] = Call("requestWrite"))
         => /\ out' = <<Call("requestWrite"), BusyMessage>>
            /\ UNCHANGED <<is_connected, printing, progress, upload, poll>>]_vars

\* a write request has just been turned away while a job was printing
C3_Witness ==
    /\ printing
    /\ out = <<Call("requestWrite"), BusyMessage>>
    /\ \E u \in Writes : upload[u].pc = "done" /\ upload[u].emits = 1

\* the step in which upload thread u gets the reply of its start command
StartReplied(u) == upload[u].pc = "starting" /\ upload'[u].pc = "done"

\* C4: when the upload POST returned 200 and the start command returns 200,
\* printing becomes true and progress 0, and the write request emits exactly
\* one progressChanged (none before the start command's reply).
C4_StartedJobNotifiesOnce ==
    /\ [][\A u \in Writes :
            (StartReplied(u) /\ reply'.kind = "ok" /\ reply'.status = HTTP_OK)
              => /\ printing' = TRUE
                 /\ progress' = 0
                 /\ Count(out', Emit("progressChanged")) = 1
                 /\ upload'[u].emits = 1]_vars
    /\ [](\A u \in Writes : upload[u].pc # "done" => upload[u].emits = 0)
    /\ [][\A u \in Writes : upload[u].pc = "done" => upload'[u] = upload[u]]_vars

\* two write requests have each started a job; the second has just notified
C4_Witness ==
    \E u, v \in Writes :
        /\ u # v
        /\ upload[u].pc = "done" /\ upload[u].emits = 1
        /\ upload[v].pc = "done" /\ upload[v].emits = 1
        /\ out = <<Step("_uploadGCode"), Emit("progressChanged")>>
        /\ printing /\ progress = 0

\* the messages of a failed upload
UploadFailureMessages == {UploadFailedMessage} \cup {ErrorUploadingMessage(e) : e \in ExcTexts}

\* C5: when the upload POST returned 200 and the start command fails (a status
\* other than 200, or an exception), the upload operation leaves printing as
\* it was and shows an error message that is neither the busy message nor one
\* of the upload-failure messages.
C5_StartFailureDistinctError ==
    [][\A u \in Writes :
         (StartReplied(u) /\ ~(reply'.kind = "ok" /\ reply'.status = HTTP_OK))
           => /\ printing' = printing
              /\ \E k \in 1..Len(out') :
                    /\ out'[k][1] = "msg"
                    /\ out'[k] \notin ({BusyMessage} \cup UploadFailureMessages)]_vars

\* the step in which the status thread gets the reply of a poll
PollReplied == poll.pc = "inflight" /\ poll'.pc = "top"

\* a failed poll: an exception, a status other than 200, or a body that is no JSON
FailedPoll(r) == r.kind = "error" \/ r.status # HTTP_OK \/ r.body.type = "invalid"

\* C6: over a run of consecutive failed polls stateChanged is emitted at most
\* once, and a failed poll of a connection already disconnected emits none.
C6_OneStateChangePerFailureRun ==
    [][(PollReplied /\ FailedPoll(reply'))
         => /\ fail_run_emits' <= 1
            /\ (~is_connected => Count(out', Emit("stateChanged")) = 0)]_vars

\* C7 as claimed: progressChanged is emitted by a step if and only if the step
\* changes progress, polling steps and the upload operation alike.
C7_NotifyIffProgressChanges ==
    [][/\ progress' # progress => Count(out', Emit("progressChanged")) = 1
       /\ progress' = progress => Count(out', Emit("progressChanged")) = 0]_vars

\* C7 as amended: every change of progress comes with exactly one
\* progressChanged; a step that leaves progress as it was emits none, except
\* the reply of a successful start command, which emits exactly one also
\* when progress was 0 already.
C7_NotifyOnProgressChange ==
    [][/\ progress' # progress => Count(out', Emit("progressChanged")) = 1
       /\ (progress' = progress /\ Count(out', Emit("progressChanged")) # 0)
            => /\ \E u \in Writes : StartReplied(u)
               /\ reply'.kind = "ok" /\ reply'.status = HTTP_OK
               /\ progress = 0
               /\ Count(out', Emit("progressChanged")) = 1]_vars

\* a poll has just moved progress and notified once; a later poll with the
\* same progress would be silent
C7_Witness ==
    /\ reply.kind = "ok" /\ reply.body.progress = [kind |-> "num", val |-> 50]
    /\ progress = 50
    /\ printing
    /\ out = <<Step("_statusThreadFunction"), Emit("progressChanged")>>

\* the status word of a body as the claim reads it: lower-cased when it is a
\* string of an object "build", else none
ClaimedBuilding(b) ==
    /\ b.build = "object"
    /\ b.status.kind = "str"
    /\ Lower(b.status.val) \in {W_building, W_printing}

\* C8: after a poll that returned 200 with a JSON object, printing is true
\* exactly when the lower-cased build.status is "building" or "printing"; any
\* other or missing status gives false.
C8_PrintingFollowsStatus ==
    [][(PollReplied /\ reply'.kind = "ok" /\ reply'.status = HTTP_OK
          /\ reply'.body.type = "object")
         => printing' = ClaimedBuilding(reply'.body)]_vars

\* the step in which upload thread u gets the reply of its upload POST
UploadReplied(u) == upload[u].pc = "uploading" /\ upload'[u].pc # "uploading"

\* C14: the start command of a write request is sent only in the step in which
\* the upload POST of that request returned 200; when the upload POST returns
\* another status or raises, no start command is sent, an error message is
\* shown, the thread ends, and printing and progress stay as they were.
C14_StartOnlyAfterUploadOk ==
    /\ [][Count(out', Http("printfile")) <= 1
          /\ (Count(out', Http("printfile")) = 1
                => \E u \in Writes :
                      /\ UploadReplied(u)
                      /\ reply'.kind = "ok" /\ reply'.status = HTTP_OK)
          /\ \A u \in Writes :
                /\ (upload[u].pc # "starting" /\ upload'[u].pc = "starting")
                     => /\ UploadReplied(u)
                        /\ reply'.kind = "ok" /\ reply'.status = HTTP_OK
                        /\ Count(out', Http("printfile")) = 1
                /\ (UploadReplied(u) /\ ~(reply'.kind = "ok" /\ reply'.status = HTTP_OK))
                     => /\ Count(out', Http("printfile")) = 0
                        /\ upload'[u].pc = "done"
                        /\ \E m \in UploadFailureMessages : Count(out', m) = 1
                        /\ UNCHANGED <<printing, progress>>]_vars
    /\ [](\A u \in Writes : upload[u].pc = "starting" => upload[u].response = HTTP_OK)

\* one write request has sent its start command after a 200, another has
\* ended on an upload answered with another status
C14_Witness ==
    \E u, v \in Writes :
        /\ upload[u].pc = "starting" /\ upload[u].response = HTTP_OK
        /\ upload[v].pc = "done" /\ upload[v].response \in OtherStatuses
        /\ upload[v].start_response = None

\* a poll that did not get through: an exception, a status other than 200, or
\* a body the status cannot be read from
PollFailed(r) ==
    \/ r.kind = "error"
    \/ r.status # HTTP_OK
    \/ r.body.type # "object"
    \/ r.body.build = "nonobject"
    \/ r.body.status.kind = "nonstr"

\* the step in which upload thread u ends without a started job
WriteFailed(u) ==
    /\ upload[u].pc \in {"open", "uploading", "starting"}
    /\ upload'[u].pc = "done"
    /\ ~(upload[u].pc = "starting" /\ reply'.kind = "ok" /\ reply'.status = HTTP_OK)

\* C15: printing goes from true to false only in a poll step that received
\* 200 with a readable status that is not "building" or "printing"; a failed
\* poll and a failed write request leave printing and progress as they were.
C15_PrintingExitsOnlyByPoll ==
    [][/\ (printing /\ ~printing')
            => /\ PollReplied
               /\ reply'.kind = "ok" /\ reply'.status = HTTP_OK
               /\ ~PollFailed(reply')
               /\ ~ClaimedBuilding(reply'.body)
       /\ (PollReplied /\ PollFailed(reply')) => UNCHANGED <<printing, progress>>
       /\ (\E u \in Writes : WriteFailed(u)) => UNCHANGED <<printing, progress>>]_vars

\* a job that had reached progress 50 has been seen idle by a poll
C15_Witness ==
    /\ ~printing
    /\ progress = 50
    /\ reply.kind = "ok" /\ reply.status = HTTP_OK
    /\ reply.body.status = [kind |-> "str", val |-> <<"i", "d", "l", "e">>]
    /\ poll.pc = "top"

\* the device answers a poll with 200 and a JSON object
AnswersObject(r) == r.kind = "ok" /\ r.status = HTTP_OK /\ r.body.type = "object"

\* the poll gets another status, or the request raises
AnswerFails(r) == r.kind = "error" \/ r.status # HTTP_OK

\* C16: the status loop goes on after every reply, failed ones included; if
\* from some point on every poll is answered with 200 and a JSON object,
\* is_connected is eventually true for good, and if from some point on every
\* poll fails, is_connected is eventually false for good.
C16_PollingTracksDevice ==
    /\ [][PollReplied => poll'.pc = "top"]_vars
    /\ (poll.pc = "top" ~> poll.pc = "inflight")
    /\ (<>[][PollReplied => AnswersObject(reply')]_vars => <>[]is_connected)
    /\ (<>[][PollReplied => AnswerFails(reply')]_vars => <>[](~is_connected))

\* C17: the progress of a connection is always a number from 0 to 100.
C17_ProgressInRange == progress \in 0..100

\* C18: at most one scan thread is inside _checkPrinter at any time.
C18_OneScanThread ==
    Cardinality({t \in Threads : scan[t].pc \in {"urlopen", "inflight", "construct"}}) <= 1

\* C19: at most one upload thread of a connection is running at any time, and
\* no upload POST is sent while printing is true.
C19_OneUploadInFlight ==
    /\ [](Cardinality({u \in Writes : upload[u].pc \in {"open", "uploading", "starting"}}) <= 1)
    /\ [][printing => Count(out', Http("upload")) = 0]_vars

(* ---- the plugin with a discovered device ---- *)

\* the scanner together with the status thread of the device it constructs
NextPlugin ==
    \/ NextScanner
    \/ PollStep

SpecPlugin == InitScanner /\ [][NextPlugin]_vars

(* ---- claims about the timeouts ---- *)

\* C11: every discovery probe is opened with the 1-second timeout and every
\* status poll with the 5-second timeout, however the scan threads and the
\* status thread interleave.
C11_OwnTimeoutInForce ==
    /\ \A t \in Threads : scan[t].pc = "inflight" => scan[t].timeout = ProbeTimeout
    /\ poll.pc = "inflight" => poll.timeout = PollTimeout

====
